---- MODULE Spec2Model ----
(***************************************************************************)
(* Model of the semantic retrieval index of exam/rag/__init__.py:          *)
(* CrewAIVectorStore (SQLite tables documents / vectors / embedder_state   *)
(* behind one connection, an in-memory FAISS IndexFlatIP) and the          *)
(* TfidfEmbedder it owns.                                                  *)
(*                                                                         *)
(* A text is a small integer.  A vector is the pair of the text it embeds  *)
(* and the parameters of the embedder that produced it; every fit learns   *)
(* parameters of its own, identified by the number of the fit.             *)
(*                                                                         *)
(* The numbers inside the vectors (their length, their norm, the bytes of  *)
(* their rows) are the subject of a third specification, SpecArr, which    *)
(* follows the same handlers at the level of the arrays.                   *)
(***************************************************************************)
EXTENDS Integers, Sequences, FiniteSets, TLC

VARIABLES disk, conn, index, embedder, fits, last, ret, pc, loc,
          dimension, tfidf, blobs, flat, out, objs, pop

\* the store and its callers, with the vectors as wholes
store_vars == <<disk, conn, index, embedder, fits, last, ret, pc, loc>>
\* the store at the level of the arrays
array_vars == <<dimension, tfidf, blobs, flat, out>>

\* the store objects of a process and their connections
life_vars == <<objs>>
\* one call of populate_vector_store
pop_vars == <<pop>>

vars == <<disk, conn, index, embedder, fits, last, ret, pc, loc,
          dimension, tfidf, blobs, flat, out, objs, pop>>

\* ------------------------------------------------------------------ bounds
NumTexts == 2
MaxBatch == 2
MaxDocs == 3
MaxK == 2
MaxFits == 2

Texts == 1..NumTexts
Metas == {"m"}
EmptyMeta == "{}"
\* metadatas=None, told apart from every list of metadata
None == <<"None">>

Min2(a, b) == IF a < b THEN a ELSE b
Max2(a, b) == IF a > b THEN a ELSE b
MaxOf(S) == IF S = {} THEN 0 ELSE CHOOSE x \in S : \A y \in S : y <= x

RECURSIVE Ascending(_)
Ascending(S) ==
    IF S = {} THEN <<>>
    ELSE LET m == CHOOSE x \in S : \A y \in S : x <= y
         IN <<m>> \o Ascending(S \ {m})

\* ------------------------------------------------------------- the embedder
\* TfidfEmbedder.__init__: a new embedder is not fitted.
TfidfEmbedder == [is_fitted |-> FALSE, gen |-> 0]

\* TfidfEmbedder.fit: learns its parameters from the corpus; nth is the number
\* of this fit among all the fits made on the database file.
fit(emb, all_texts, nth) == [is_fitted |-> TRUE, gen |-> nth]

\* The vector np.random.randn gives an embedder that is not fitted (no text is
\* 0, so no fitted embedder produces it).
RandomVec == [txt |-> 0, gen |-> 0]

\* TfidfEmbedder.embed
embed(emb, text) ==
    IF ~emb.is_fitted THEN RandomVec
    ELSE [txt |-> text, gen |-> emb.gen]

\* TfidfEmbedder.embed_batch
embed_batch(emb, texts) ==
    IF ~emb.is_fitted THEN [i \in 1..Len(texts) |-> RandomVec]
    ELSE [i \in 1..Len(texts) |-> [txt |-> texts[i], gen |-> emb.gen]]

\* ------------------------------------------------------------- the database
\* _init_database on a new file: three empty tables; seq is the AUTOINCREMENT
\* counter of documents (table sqlite_sequence), embedder_state its single row.
NoRow == [is_fitted |-> FALSE, gen |-> 0]
EmptyDB == [documents |-> <<>>, vectors |-> <<>>, seq |-> 0, embedder_state |-> NoRow]

\* INSERT INTO documents (content, metadata): the id AUTOINCREMENT assigns.
NextRowId(db) == Max2(db.seq, MaxOf(DOMAIN db.documents)) + 1

InsertDocument(db, text, metadata) ==
    LET doc_id == NextRowId(db)
    IN [db EXCEPT !.documents = doc_id :> [content |-> text, metadata |-> metadata] @@ @,
                  !.seq = doc_id]

\* INSERT INTO vectors that writes no row
InsertVector_WritesNothing(db, doc_id, vector) == db

\* INSERT INTO vectors (doc_id, vector)
InsertVector(db, doc_id, vector) ==
    [db EXCEPT !.vectors = doc_id :> vector @@ @]

\* UPDATE vectors SET vector = ? WHERE doc_id = ? (no row: nothing changes)
UpdateVector(db, doc_id, vector) ==
    IF doc_id \in DOMAIN db.vectors
    THEN [db EXCEPT !.vectors[doc_id] = vector]
    ELSE db

\* SELECT content FROM documents (rowid order)
SelectContents(db) ==
    LET ids == Ascending(DOMAIN db.documents)
    IN [i \in 1..Len(ids) |-> db.documents[ids[i]].content]

\* SELECT vector FROM vectors ORDER BY doc_id
SelectVectors(db) ==
    LET ids == Ascending(DOMAIN db.vectors)
    IN [i \in 1..Len(ids) |-> db.vectors[ids[i]]]

\* INSERT OR REPLACE INTO embedder_state ... VALUES (1, ?, ?, 1)
ReplaceEmbedderState(db, emb) ==
    [db EXCEPT !.embedder_state = [is_fitted |-> TRUE, gen |-> emb.gen]]

\* -------------------------------------------------------------- the store
\* A store state: disk is the committed database, conn what the connection
\* sees (disk plus the writes of its open transaction), fits the number of
\* fits made so far.
St == [disk |-> disk, conn |-> conn, index |-> index, embedder |-> embedder, fits |-> fits]

\* conn.commit() / conn.rollback()
commit(st) == [st EXCEPT !.disk = st.conn]

\* a rollback that does not restore the AUTOINCREMENT counter
rollback_KeepsSequence(st) == [st EXCEPT !.conn = [st.disk EXCEPT !.seq = st.conn.seq]]

rollback(st) == [st EXCEPT !.conn = st.disk]

\* pickle.dumps / pickle.loads of a metadata mapping
pickle_dumps(metadata) == <<"pickle", metadata>>
pickle_loads(blob) == blob[2]

\* _load_embedder: the persisted state replaces the new embedder's, unless the
\* row is absent or not fitted, or unpickling raises (caught and printed).
load_embedder(emb, db, unpickle_raises) ==
    IF db.embedder_state.is_fitted /\ ~unpickle_raises
    THEN [is_fitted |-> TRUE, gen |-> db.embedder_state.gen]
    ELSE emb

\* _save_embedder: nothing when not fitted, else write the row and commit.
save_embedder(st) ==
    IF ~st.embedder.is_fitted THEN st
    ELSE commit([st EXCEPT !.conn = ReplaceEmbedderState(@, st.embedder)])

\* _load_vectors that misses the first row of the cursor
load_vectors_SkipsFirstRow(idx, db) ==
    idx \o (IF SelectVectors(db) = <<>> THEN <<>> ELSE Tail(SelectVectors(db)))

\* _load_vectors: index.add of every persisted vector, by ascending doc_id.
load_vectors(idx, db) == idx \o SelectVectors(db)

\* CrewAIVectorStore.__init__ on the database file whose committed content is db.
Construct(db, unpickle_raises, nfits) ==
    [fits |-> nfits,
     disk |-> db,
     conn |-> db,
     embedder |-> load_embedder(TfidfEmbedder, db, unpickle_raises),
     index |-> load_vectors(<<>>, db)]

\* ---------------------------------------------------------------- add_texts
\* A fault is the place where the environment makes a call raise during one
\* operation (a storage call, or a call of the embedder): at names the place
\* and j the row for the two loops.  A fault at a place the operation does not
\* pass does not happen.
NoFault == [at |-> "none", j |-> 0]
AddFaults ==
    {NoFault}
    \cup {[at |-> a, j |-> 0] : a \in {"select", "fit", "save", "embed_old", "embed", "commit"}}
    \cup {[at |-> a, j |-> j] : a \in {"update", "insert"}, j \in 1..MaxDocs}

\* the call add_texts(texts, metadatas) on store st passes the place of the fault
Passes(st, texts, metadatas, fault) ==
    LET refit == texts # <<>> /\ ~st.embedder.is_fitted
        pairs == IF metadatas = None THEN Len(texts) ELSE Min2(Len(texts), Len(metadatas))
    IN CASE fault.at = "none" -> TRUE
         [] fault.at \in {"select", "fit", "save"} -> refit
         [] fault.at = "embed_old" -> refit /\ DOMAIN st.conn.documents # {}
         [] fault.at = "update" -> refit /\ fault.j <= Cardinality(DOMAIN st.conn.documents)
         [] fault.at \in {"embed", "commit"} -> texts # <<>>
         [] fault.at = "insert" -> texts # <<>> /\ fault.j <= pairs

Ok(st) == [st |-> st, exc |-> "none"]
Raise(st, what) == [st |-> st, exc |-> what]

\* the loop of lines 376-380 up to and including row upto
RECURSIVE UpdateVectors(_, _, _)
UpdateVectors(db, old_embeddings, upto) ==
    IF upto = 0 THEN db
    ELSE UpdateVector(UpdateVectors(db, old_embeddings, upto - 1), upto, old_embeddings[upto])

\* the loop of lines 387-399 up to and including triple upto
RECURSIVE InsertRows(_, _, _, _, _)
InsertRows(db, texts, metadatas, embeddings, upto) ==
    IF upto = 0 THEN db
    ELSE LET d == InsertRows(db, texts, metadatas, embeddings, upto - 1)
             doc_id == NextRowId(d)
         IN InsertVector(InsertDocument(d, texts[upto], pickle_dumps(metadatas[upto])),
                         doc_id, embeddings[upto])

\* lines 367-380: regenerate the vectors of the documents that existed
Regenerate(st, existing_texts, fault) ==
    IF existing_texts = <<>> THEN Ok(st)
    ELSE IF fault.at = "embed_old" THEN Raise(st, "embed_old")
    ELSE LET old_embeddings == embed_batch(st.embedder, existing_texts)
             reloaded == [st EXCEPT !.index = <<>> \o old_embeddings]
             hit == fault.at = "update" /\ fault.j <= Len(old_embeddings)
             upto == IF hit THEN fault.j - 1 ELSE Len(old_embeddings)
             updated == [reloaded EXCEPT !.conn = UpdateVectors(@, old_embeddings, upto)]
         IN IF hit THEN Raise(updated, "update") ELSE Ok(updated)

\* lines 356-380: the first batch of an embedder that is not fitted
FitSection(st, texts, fault) ==
    IF st.embedder.is_fitted THEN Ok(st)
    ELSE IF fault.at = "select" THEN Raise(st, "select")
    ELSE LET existing_texts == SelectContents(st.conn)
             all_texts == existing_texts \o texts
             fitted == [st EXCEPT !.embedder = fit(@, all_texts, st.fits + 1), !.fits = @ + 1]
         IN IF fault.at = "fit" THEN Raise(st, "fit")
            ELSE IF fault.at = "save"
            THEN Raise([fitted EXCEPT !.conn = ReplaceEmbedderState(@, fitted.embedder)], "save")
            ELSE Regenerate(save_embedder(fitted), existing_texts, fault)

\* InsertSection with the commit moved into the loop: every inserted pair is
\* committed at once, so a failure at row j leaves rows 1..j-1 on disk.
InsertSection_CommitsEachRow(st, texts, metadatas, fault) ==
    IF fault.at = "embed" THEN Raise(st, "embed")
    ELSE LET embeddings == embed_batch(st.embedder, texts)
             pairs == Min2(Len(texts), Len(metadatas))
             hit == fault.at = "insert" /\ fault.j <= pairs
             upto == IF hit THEN fault.j - 1 ELSE pairs
             inserted == commit([st EXCEPT !.conn = InsertRows(@, texts, metadatas, embeddings, upto)])
             added == [inserted EXCEPT !.index = @ \o embeddings]
         IN IF hit THEN Raise(inserted, "insert")
            ELSE IF fault.at = "commit" THEN Raise(added, "commit")
            ELSE Ok(commit(added))

\* InsertSection that resets the index before it adds the batch
InsertSection_ResetsIndex(st, texts, metadatas, fault) ==
    IF fault.at = "embed" THEN Raise(st, "embed")
    ELSE LET embeddings == embed_batch(st.embedder, texts)
             pairs == Min2(Len(texts), Len(metadatas))
             hit == fault.at = "insert" /\ fault.j <= pairs
             upto == IF hit THEN fault.j - 1 ELSE pairs
             inserted == [st EXCEPT !.conn = InsertRows(@, texts, metadatas, embeddings, upto)]
             added == [inserted EXCEPT !.index = <<>> \o embeddings]
         IN IF hit THEN Raise(inserted, "insert")
            ELSE IF fault.at = "commit" THEN Raise(added, "commit")
            ELSE Ok(commit(added))

\* lines 382-404: embed the batch, insert its rows, add to the index, commit
InsertSection(st, texts, metadatas, fault) ==
    IF fault.at = "embed" THEN Raise(st, "embed")
    ELSE LET embeddings == embed_batch(st.embedder, texts)
             pairs == Min2(Len(texts), Len(metadatas))
             hit == fault.at = "insert" /\ fault.j <= pairs
             upto == IF hit THEN fault.j - 1 ELSE pairs
             inserted == [st EXCEPT !.conn = InsertRows(@, texts, metadatas, embeddings, upto)]
             added == [inserted EXCEPT !.index = @ \o embeddings]
         IN IF hit THEN Raise(inserted, "insert")
            ELSE IF fault.at = "commit" THEN Raise(added, "commit")
            ELSE Ok(commit(added))

\* what a call hands back: the store after it, the exception raised inside it
\* ("none": none), and whether that exception reached the caller
Returned(st, exc, raised) == [st |-> st, exc |-> exc, raised |-> raised]

\* CrewAIVectorStore.add_texts.  The handler of lines 408-412 rolls back,
\* prints, and lets the call return normally.
add_texts(st, texts, metadatas, fault) ==
    IF texts = <<>> THEN Returned(st, "none", FALSE)
    ELSE LET metas == IF metadatas = None THEN [i \in 1..Len(texts) |-> EmptyMeta]
                      ELSE metadatas
             a == FitSection(st, texts, fault)
             b == IF a.exc # "none" THEN a ELSE InsertSection(a.st, texts, metas, fault)
         IN IF b.exc # "none" THEN Returned(rollback(b.st), b.exc, FALSE)
            ELSE Returned(b.st, "none", FALSE)

\* get_collection_size
get_collection_size(st) == Len(st.index)

\* ---------------------------------------------------------- similarity_search
Document(page_content, metadata) == [page_content |-> page_content, metadata |-> metadata]

SearchFaults == {NoFault} \cup {[at |-> a, j |-> 0] : a \in {"embed", "search", "select"}}

\* index.search(query_embedding, k): k distinct positions (0-based) of the
\* index, best first.  The order the inner products give is left open here.
IndexSearch(idx, query_embedding, k) ==
    {s \in UNION {[1..n -> 0..(Len(idx) - 1)] : n \in {k}} :
        \A a, b \in 1..k : a # b => s[a] # s[b]}

\* lines 322-334: the rows of the positions the index returned
RECURSIVE Resolve(_, _)
Resolve(db, indices) ==
    IF indices = <<>> THEN <<>>
    ELSE LET doc_id == Head(indices) + 1
             rest == Resolve(db, Tail(indices))
         IN IF doc_id \in DOMAIN db.documents
            THEN <<Document(db.documents[doc_id].content,
                            pickle_loads(db.documents[doc_id].metadata))>> \o rest
            ELSE rest

\* CrewAIVectorStore.similarity_search, given the positions the index returns:
\* the list it returns, the exception raised inside it, and whether that
\* exception reached the caller (the handler of lines 338-342 returns a list).
similarity_search(st, query, indices, fault) ==
    IF Len(st.index) = 0
    THEN [docs |-> <<Document("Vector store vuoto", EmptyMeta)>>, exc |-> "none",
          raised |-> FALSE]
    ELSE IF fault.at # "none"
    THEN [docs |-> <<Document("Errore nella ricerca", EmptyMeta)>>, exc |-> fault.at,
          raised |-> FALSE]
    ELSE [docs |-> Resolve(st.conn, indices), exc |-> "none", raised |-> FALSE]

\* --------------------------------------------------------------- the arrays
\* The store at the level of the numbers: an ndarray is the sequence of its
\* components, a row of the vectors table the bytes of one, the index the
\* arrays added to it.  What the fitted vectorizer and svd compute from a text
\* is an input: any array of the length the code gives it.
MaxDim == 2
MaxVocab == 3
MaxNum == 1
MaxRows == 2

\* TruncatedSVD(n_components=min(dimension, 1000))
SvdCap == 1000
\* bytes of one float32
ItemSize == 4

Dimensions == 1..MaxDim
Nums == 0..MaxNum

RECURSIVE SumSq(_)
SumSq(x) == IF x = <<>> THEN 0 ELSE Head(x) * Head(x) + SumSq(Tail(x))

\* the arrays of n components, and those np.random.randn gives
Arrays(n) == [1..n -> Nums]
RandomArrays(n) == {x \in Arrays(n) : SumSq(x) > 0}

\* a float32 array: the components x, divided by their norm when unit
ndarray(x, unit) == [x |-> x, unit |-> unit]
NoArray == ndarray(<<>>, FALSE)

\* np.linalg.norm(a) = 1
IsUnit(a) == SumSq(a.x) > 0 /\ (a.unit \/ SumSq(a.x) = 1)

\* what a call of the embedder hands back: the value returned, or the
\* exception raised
Result(value, exc) == [value |-> value, exc |-> exc]

\* TfidfEmbedder.__init__(dimension): vocabulary is the number of features of
\* the fitted vectorizer, svd_fitted whether svd.fit has run
NewTfidfEmbedder(dim) ==
    [is_fitted |-> FALSE, dimension |-> dim, vocabulary |-> 0,
     n_components |-> Min2(dim, SvdCap), svd_fitted |-> FALSE]

\* TfidfEmbedder.fit, on a corpus whose tf-idf matrix has shape1 columns
fit_arrays(tf, shape1) ==
    [tf EXCEPT !.is_fitted = TRUE,
               !.vocabulary = shape1,
               !.svd_fitted = IF shape1 > tf.dimension THEN TRUE ELSE @]

\* lines 142-147 and 163-168: svd.transform is taken when the vocabulary is
\* larger than the dimension, and raises when the svd was never fitted
TransformRaises(tf) == tf.vocabulary > tf.dimension /\ ~tf.svd_fitted
NaturalDim(tf) ==
    IF tf.vocabulary > tf.dimension
    THEN (IF tf.svd_fitted THEN tf.n_components ELSE 0)
    ELSE tf.vocabulary

\* TfidfEmbedder._ensure_dimension
ensure_dimension_NoTruncation(embedding, dim) ==
    LET current_dim == Len(embedding)
    IN IF current_dim >= dim THEN embedding
       ELSE [i \in 1..dim |-> IF i <= current_dim THEN embedding[i] ELSE 0]

ensure_dimension(embedding, dim) ==
    LET current_dim == Len(embedding)
    IN IF current_dim = dim THEN embedding
       ELSE IF current_dim > dim THEN SubSeq(embedding, 1, dim)
       ELSE [i \in 1..dim |-> IF i <= current_dim THEN embedding[i] ELSE 0]

\* TfidfEmbedder.embed: natural is what the transform gives for the text,
\* random what np.random.randn gives
embed_array(tf, natural, random) ==
    IF ~tf.is_fitted THEN Result(ndarray(random, FALSE), "none")
    ELSE IF TransformRaises(tf) THEN Result(NoArray, "NotFittedError")
    ELSE LET embedding == ensure_dimension(natural, tf.dimension)
         IN Result(ndarray(embedding, SumSq(embedding) > 0), "none")

\* TfidfEmbedder.embed_batch: naturals and randoms hold one array per text
embed_batch_arrays(tf, naturals, randoms) ==
    IF ~tf.is_fitted
    THEN Result([i \in 1..Len(randoms) |-> ndarray(randoms[i], FALSE)], "none")
    ELSE IF TransformRaises(tf) THEN Result(<<>>, "NotFittedError")
    ELSE Result([i \in 1..Len(naturals) |->
                    LET row == ensure_dimension(naturals[i], tf.dimension)
                    IN ndarray(row, SumSq(row) > 0)], "none")

\* faiss.normalize_L2: a row of norm 0 is left as it is
normalize_L2(a) == IF SumSq(a.x) = 0 THEN a ELSE ndarray(a.x, TRUE)
normalize_rows(arrays) == [i \in 1..Len(arrays) |-> normalize_L2(arrays[i])]

\* ndarray.tobytes of float64 components: twice the bytes
tobytes_Float64(a) == [nbytes |-> 2 * ItemSize * Len(a.x), x |-> a.x, unit |-> a.unit]

\* ndarray.tobytes of a float32 array
tobytes(a) == [nbytes |-> ItemSize * Len(a.x), x |-> a.x, unit |-> a.unit]

\* np.frombuffer(blob, dtype='float32'): as many components as the bytes hold
frombuffer(blob) ==
    IF blob.nbytes = ItemSize * Len(blob.x) THEN ndarray(blob.x, blob.unit)
    ELSE ndarray([i \in 1..(blob.nbytes \div ItemSize) |-> 0], FALSE)

\* faiss.IndexFlatIP(d)
IndexFlatIP(d) == [d |-> d, xs |-> <<>>]

\* index.add without the check of the number of columns
index_add_Unchecked(idx, arrays) ==
    [index |-> [idx EXCEPT !.xs = @ \o arrays], exc |-> "none"]

\* index.add(x): the wrapper asserts that x has d columns
index_add(idx, arrays) ==
    IF \E i \in 1..Len(arrays) : Len(arrays[i].x) # idx.d
    THEN [index |-> idx, exc |-> "AssertionError"]
    ELSE [index |-> [idx EXCEPT !.xs = @ \o arrays], exc |-> "none"]

\* the database file at this level: the rows of vectors by ascending doc_id
\* (the documents table has one row for each) and the row of embedder_state
NoStateRow == [is_fitted |-> FALSE, vocabulary |-> 0, n_components |-> 0, svd_fitted |-> FALSE]
EmptyFile == [vectors |-> <<>>, embedder_state |-> NoStateRow]

\* no store is open
Closed == [dimension |-> 0, tfidf |-> NewTfidfEmbedder(0), blobs |-> EmptyFile,
           flat |-> IndexFlatIP(0)]

Arr == [dimension |-> dimension, tfidf |-> tfidf, blobs |-> blobs, flat |-> flat]

\* _load_embedder: the pickled vectorizer and svd replace the new ones
load_embedder_arrays(tf, file, unpickle_raises) ==
    IF file.embedder_state.is_fitted /\ ~unpickle_raises
    THEN [tf EXCEPT !.is_fitted = TRUE,
                    !.vocabulary = file.embedder_state.vocabulary,
                    !.n_components = file.embedder_state.n_components,
                    !.svd_fitted = file.embedder_state.svd_fitted]
    ELSE tf

\* _save_embedder (committed at once)
save_embedder_arrays(file, tf) ==
    IF ~tf.is_fitted THEN file
    ELSE [file EXCEPT !.embedder_state =
             [is_fitted |-> TRUE, vocabulary |-> tf.vocabulary,
              n_components |-> tf.n_components, svd_fitted |-> tf.svd_fitted]]

\* _load_vectors
load_vectors_arrays(idx, file) ==
    LET vectors == [i \in 1..Len(file.vectors) |-> frombuffer(file.vectors[i])]
    IN IF vectors # <<>> THEN index_add(idx, vectors)
       ELSE [index |-> idx, exc |-> "none"]

\* CrewAIVectorStore.__init__(db_file, dimension) on the file: the store,
\* or the exception that leaves the construction
open_arrays(file, dim, unpickle_raises) ==
    LET tf == load_embedder_arrays(NewTfidfEmbedder(dim), file, unpickle_raises)
        loaded == load_vectors_arrays(IndexFlatIP(dim), file)
    IN IF loaded.exc # "none"
       THEN [s |-> [Closed EXCEPT !.blobs = file], exc |-> loaded.exc]
       ELSE [s |-> [dimension |-> dim, tfidf |-> tf, blobs |-> file, flat |-> loaded.index],
             exc |-> "none"]

\* CrewAIVectorStore.add_texts on a batch of Len(naturals) texts: shape1 is the
\* number of features a fit learns, naturals_old and naturals what the
\* transform gives for the texts of the file and for those of the batch,
\* insert_raises whether an INSERT fails
add_texts_arrays(s, shape1, naturals_old, naturals, insert_raises) ==
    LET refit == ~s.tfidf.is_fitted
        tf == IF refit THEN fit_arrays(s.tfidf, shape1) ELSE s.tfidf
        saved == IF refit THEN save_embedder_arrays(s.blobs, tf) ELSE s.blobs
        regenerate == refit /\ Len(s.blobs.vectors) > 0
        old_embeddings == normalize_rows(embed_batch_arrays(tf, naturals_old, <<>>).value)
        reloaded == IF regenerate THEN index_add(IndexFlatIP(s.flat.d), old_embeddings).index
                    ELSE s.flat
        updated == IF regenerate
                   THEN [i \in 1..Len(saved.vectors) |-> tobytes(old_embeddings[i])]
                   ELSE saved.vectors
        embedded == embed_batch_arrays(tf, naturals, <<>>)
        embeddings == normalize_rows(embedded.value)
        inserted == updated \o [i \in 1..Len(embeddings) |-> tobytes(embeddings[i])]
        added == index_add(reloaded, embeddings)
        failed == [s EXCEPT !.tfidf = tf, !.blobs = saved, !.flat = reloaded]
    IN IF embedded.exc # "none" THEN [s |-> failed, exc |-> embedded.exc]
       ELSE IF insert_raises THEN [s |-> failed, exc |-> "insert"]
       ELSE IF added.exc # "none" THEN [s |-> failed, exc |-> added.exc]
       ELSE [s |-> [s EXCEPT !.tfidf = tf,
                             !.blobs = [saved EXCEPT !.vectors = inserted],
                             !.flat = added.index],
             exc |-> "none"]

\* CrewAIVectorStore.similarity_search up to index.search: what embed handed
\* back and the query handed to the index
similarity_search_arrays(s, natural, random) ==
    IF Len(s.flat.xs) = 0
    THEN [embedded |-> Result(NoArray, "none"), query |-> NoArray, searched |-> FALSE]
    ELSE LET embedded == embed_array(s.tfidf, natural, random)
         IN IF embedded.exc # "none"
            THEN [embedded |-> embedded, query |-> NoArray, searched |-> FALSE]
            ELSE [embedded |-> embedded, query |-> normalize_L2(embedded.value),
                  searched |-> TRUE]

\* the last call at this level: its name, its argument, what it handed back,
\* the exception raised inside it, and whether it found the embedder fitted
Out(op, arg, value, exc, fitted) ==
    [op |-> op, arg |-> arg, value |-> value, exc |-> exc, fitted |-> fitted]

ArraysClosed ==
    /\ dimension = Closed.dimension
    /\ tfidf = Closed.tfidf
    /\ blobs = Closed.blobs
    /\ flat = Closed.flat
    /\ out = Out("none", 0, 0, "none", FALSE)

\* ------------------------------------------- the object and its connection
MaxObjects == 3
MaxCloses == 2

Objects == 1..MaxObjects

\* a store object: where its life stands ("new": not constructed, "ready":
\* __init__ returned, "failed": __init__ raised, "finalized": __del__ ran),
\* whether a caller holds a reference to it, its attribute conn ("unset": not
\* assigned), the number of conn.close() calls, the exception of the last
\* close() or __del__, and whether an add_texts or similarity_search on it
\* failed
Object(phase, held, c, closes, exc, op_failed) ==
    [phase |-> phase, held |-> held, conn |-> c, closes |-> closes, exc |-> exc,
     op_failed |-> op_failed]

Unborn == Object("new", FALSE, "unset", 0, "none", FALSE)

\* the steps of __init__ in their order; a step that raises ends it
InitSteps == <<"makedirs", "connect", "init_database", "TfidfEmbedder",
               "load_embedder", "IndexFlatIP", "load_vectors">>

StepOf(name) == CHOOSE i \in 1..Len(InitSteps) : InitSteps[i] = name

\* CrewAIVectorStore.__init__ raising at step `raises` (0: at none).  self.conn
\* is assigned when sqlite3.connect returns; an exception leaves the caller
\* without a reference to the object.
construct(raises) ==
    IF raises = 0 THEN Object("ready", TRUE, "open", 0, "none", FALSE)
    ELSE Object("failed", FALSE,
                IF raises > StepOf("connect") THEN "open" ELSE "unset",
                0, "none", FALSE)

\* CrewAIVectorStore.close: closing a closed sqlite3 connection does nothing
close(obj) ==
    IF obj.conn = "unset" THEN [obj EXCEPT !.exc = "AttributeError"]
    ELSE [obj EXCEPT !.conn = "closed", !.closes = @ + 1, !.exc = "none"]

\* a finalizer that closes only what __init__ completed
del_OnlyReady(obj) ==
    IF obj.phase = "ready" THEN [close(obj) EXCEPT !.phase = "finalized"]
    ELSE [obj EXCEPT !.phase = "finalized"]

\* CrewAIVectorStore.__del__ (an exception in it is printed and dropped)
del(obj) == [close(obj) EXCEPT !.phase = "finalized"]

NoObjects == objs = [o \in Objects |-> Unborn]

\* --------------------------------------------------- populate_vector_store
MaxSlides == 51
BatchSize == 50

\* slides are numbered in the order all_slides yields them; the metadata of
\* slide s is s
\* an optional integer argument: None, or a value
Optional(given, value) == [given |-> given, value |-> value]
NoneArg == Optional(FALSE, 0)

\* the truth value Python gives the argument: None and 0 are false
Truthy(arg) == arg.given /\ arg.value # 0

\* the locals of populate_vector_store, with the number of slides all_slides
\* has, the request at which it raises (0: none), the batches handed to
\* add_texts and the value returned
Populating(n, max_slides, raises, at) ==
    [n |-> n, max_slides |-> max_slides, raises |-> raises, at |-> at,
     i |-> 0, texts |-> <<>>, metadatas |-> <<>>, slides_added |-> 0,
     handed |-> <<>>, returned |-> 0]

NotPopulating == pop = Populating(0, NoneArg, 0, "idle")

\* ------------------------------------------------------------------ actions
Threads == {1, 2}

\* the local variables of a call (of a thread of the two-caller specification)
Locals(op, texts, metadatas, k, fault) ==
    [op |-> op, texts |-> texts, metadatas |-> metadatas, k |-> k, fault |-> fault,
     existing_texts |-> <<>>, old_embeddings |-> <<>>, embeddings |-> <<>>,
     i |-> 0, doc_id |-> 0, query_embedding |-> RandomVec, indices |-> <<>>,
     docs |-> <<>>, exc |-> "none", midway |-> FALSE]

Idle == Locals("idle", <<>>, <<>>, 0, NoFault)

Batches == UNION {[1..n -> Texts] : n \in 0..MaxBatch}
Metadatas == {None} \cup UNION {[1..n -> Metas] : n \in 0..MaxBatch}

Size(f) == Cardinality(DOMAIN f)

\* what the last completed operation was: its name, the exception raised
\* inside it, whether that exception reached the caller, the failing row of a
\* loop, the number of texts (add_texts) or k (similarity_search) or of
\* constructions in a row on the same file content (2: two or more), and
\* whether the call found the embedder not fitted
Last(op, exc, raised, j, n, refit) ==
    [op |-> op, exc |-> exc, raised |-> raised, j |-> j, n |-> n, refit |-> refit]

Init ==
    /\ disk = EmptyDB
    /\ conn = EmptyDB
    /\ index = <<>>
    /\ embedder = TfidfEmbedder
    /\ fits = 0
    /\ last = Last("init", "none", FALSE, 0, 1, FALSE)
    /\ ret = <<>>
    /\ pc = [t \in Threads |-> "idle"]
    /\ loc = [t \in Threads |-> Idle]
    /\ ArraysClosed
    /\ NoObjects
    /\ NotPopulating

SetStore(st) ==
    /\ disk' = st.disk
    /\ conn' = st.conn
    /\ index' = st.index
    /\ embedder' = st.embedder
    /\ fits' = st.fits

\* a call of add_texts, run to its end
AddTexts ==
    \E texts \in Batches, metadatas \in Metadatas, fault \in AddFaults :
        /\ Size(disk.documents) + Len(texts) <= MaxDocs
        /\ Len(index) + Len(texts) <= MaxDocs
        /\ embedder.is_fitted \/ fits < MaxFits
        /\ Passes(St, texts, metadatas, fault)
        /\ \E r \in {add_texts(St, texts, metadatas, fault)} :
              /\ SetStore(r.st)
              /\ last' = Last("add_texts", r.exc, r.raised,
                              IF r.exc \in {"update", "insert"} THEN fault.j ELSE 0,
                              Len(texts), texts # <<>> /\ ~embedder.is_fitted)
        /\ ret' = <<>>
        /\ UNCHANGED <<pc, loc>>
        /\ UNCHANGED <<array_vars, life_vars, pop_vars>>

\* a call of similarity_search, run to its end
SimilaritySearch ==
    \E query \in Texts, k \in 0..MaxK, fault \in SearchFaults :
        \E indices \in IF Len(index) = 0 \/ fault.at # "none" THEN {<<>>}
                        ELSE IndexSearch(index, embed(embedder, query), Min2(k, Len(index))) :
            \E r \in {similarity_search(St, query, indices, fault)} :
               /\ ret' = r.docs
               /\ last' = Last("similarity_search", r.exc, r.raised, 0, k, FALSE)
               /\ UNCHANGED <<disk, conn, index, embedder, fits, pc, loc>>
               /\ UNCHANGED <<array_vars, life_vars, pop_vars>>

\* Reopen on the index of the closed store: _load_vectors adds the rows to an
\* index that was not made anew.
Reopen_KeepsIndex ==
    \E unpickle_raises \in BOOLEAN :
        /\ SetStore([Construct(disk, unpickle_raises, fits) EXCEPT
                        !.index = load_vectors(index, disk)])
        /\ last' = Last("init",
                        IF unpickle_raises /\ disk.embedder_state.is_fitted
                        THEN "unpickle" ELSE "none",
                        FALSE, 0, IF last.op = "init" THEN 2 ELSE 1, FALSE)
        /\ ret' = <<>>
        /\ UNCHANGED <<pc, loc>>
        /\ UNCHANGED <<array_vars, life_vars, pop_vars>>

\* the store is closed and a new one constructed on the same database file
Reopen ==
    \E unpickle_raises \in BOOLEAN :
        /\ SetStore(Construct(disk, unpickle_raises, fits))
        /\ last' = Last("init",
                        IF unpickle_raises /\ disk.embedder_state.is_fitted
                        THEN "unpickle" ELSE "none",
                        FALSE, 0, IF last.op = "init" THEN 2 ELSE 1, FALSE)
        /\ ret' = <<>>
        /\ UNCHANGED <<pc, loc>>
        /\ UNCHANGED <<array_vars, life_vars, pop_vars>>

Next == AddTexts \/ SimilaritySearch \/ Reopen

Spec == Init /\ [][Next]_vars

\* ------------------------------------------------- two callers of one store
\* The same two handlers, one statement at a time, called from two threads on
\* one store instance (the connection is opened with check_same_thread=False).
\* pc[t] is the statement thread t executes next, loc[t] its local variables.

\* The store the threads share: a database file that holds one document whose
\* session could not persist its embedder, opened again (embedder not fitted).
ConcStart ==
    LET failed == add_texts(Construct(EmptyDB, FALSE, 0), <<1>>, None, [at |-> "save", j |-> 0]).st
        added == add_texts(failed, <<1>>, None, NoFault).st
    IN Construct(added.disk, FALSE, added.fits)

ConcBatches == {<<>>, <<1>>, <<2>>, <<1, 2>>}
ConcFaults == {NoFault, [at |-> "insert", j |-> 1]}

InitConc ==
    /\ disk = ConcStart.disk
    /\ conn = ConcStart.conn
    /\ index = ConcStart.index
    /\ embedder = ConcStart.embedder
    /\ fits = ConcStart.fits
    /\ last = Last("init", "none", FALSE, 0, 1, FALSE)
    /\ ret = <<>>
    /\ pc = [t \in Threads |-> "idle"]
    /\ loc = [t \in Threads |-> Idle]
    /\ ArraysClosed
    /\ NoObjects
    /\ NotPopulating

Goto(t, label) == pc' = [pc EXCEPT ![t] = label]
Keep == UNCHANGED <<last, ret>> /\ UNCHANGED <<array_vars, life_vars, pop_vars>>

\* another thread is between index.reset() and the end of the reload (line
\* 372 done, 373 not), or between index.add and the commit (402 done, 404 not)
Midway(t) == \E u \in Threads \ {t} : pc[u] \in {"a_reload", "a_commit"}

CallAdd(t) ==
    /\ pc[t] = "idle"
    /\ \E texts \in ConcBatches, fault \in ConcFaults :
          loc' = [loc EXCEPT ![t] = Locals("add_texts", texts,
                                           [i \in 1..Len(texts) |-> EmptyMeta], 0, fault)]
    /\ Goto(t, "a_texts")
    /\ UNCHANGED <<disk, conn, index, embedder, fits>> /\ Keep

\* add_texts without the early return on an empty list
ATexts_NoEarlyReturn(t) ==
    /\ pc[t] = "a_texts"
    /\ Goto(t, "a_check")
    /\ UNCHANGED <<disk, conn, index, embedder, fits, loc>> /\ Keep

\* lines 346-350: an empty list returns at once
ATexts(t) ==
    /\ pc[t] = "a_texts"
    /\ Goto(t, IF loc[t].texts = <<>> THEN "done" ELSE "a_check")
    /\ UNCHANGED <<disk, conn, index, embedder, fits, loc>> /\ Keep

CallSearch(t) ==
    /\ pc[t] = "idle"
    /\ \E query \in Texts, k \in 1..MaxK :
          loc' = [loc EXCEPT ![t] = Locals("similarity_search", <<query>>, <<>>, k, NoFault)]
    /\ Goto(t, "s_check")
    /\ UNCHANGED <<disk, conn, index, embedder, fits>> /\ Keep

\* line 356
ACheck(t) ==
    /\ pc[t] = "a_check"
    /\ Goto(t, IF embedder.is_fitted THEN "a_embed" ELSE "a_select")
    /\ UNCHANGED <<disk, conn, index, embedder, fits, loc>> /\ Keep

\* lines 360-362
ASelect(t) ==
    /\ pc[t] = "a_select"
    /\ loc' = [loc EXCEPT ![t].existing_texts = SelectContents(conn)]
    /\ Goto(t, "a_fit")
    /\ UNCHANGED <<disk, conn, index, embedder, fits>> /\ Keep

\* line 364
AFit(t) ==
    /\ pc[t] = "a_fit"
    /\ embedder' = fit(embedder, loc[t].existing_texts \o loc[t].texts, fits + 1)
    /\ fits' = fits + 1
    /\ Goto(t, "a_save")
    /\ UNCHANGED <<disk, conn, index, loc>> /\ Keep

\* line 365, _save_embedder up to its commit (lines 270-281)
ASave(t) ==
    /\ pc[t] = "a_save"
    /\ conn' = IF embedder.is_fitted THEN ReplaceEmbedderState(conn, embedder) ELSE conn
    /\ Goto(t, IF embedder.is_fitted THEN "a_save_commit" ELSE "a_old")
    /\ UNCHANGED <<disk, index, embedder, fits, loc>> /\ Keep

\* line 283: the commit of _save_embedder
ASaveCommit(t) ==
    /\ pc[t] = "a_save_commit"
    /\ disk' = conn
    /\ Goto(t, "a_old")
    /\ UNCHANGED <<conn, index, embedder, fits, loc>> /\ Keep

\* lines 368-371
AEmbedOld(t) ==
    /\ pc[t] = "a_old"
    /\ IF loc[t].existing_texts # <<>>
       THEN /\ loc' = [loc EXCEPT ![t].old_embeddings = embed_batch(embedder, loc[t].existing_texts)]
            /\ Goto(t, "a_reset")
       ELSE /\ UNCHANGED loc
            /\ Goto(t, "a_embed")
    /\ UNCHANGED <<disk, conn, index, embedder, fits>> /\ Keep

\* line 372
AReset(t) ==
    /\ pc[t] = "a_reset"
    /\ index' = <<>>
    /\ Goto(t, "a_reload")
    /\ UNCHANGED <<disk, conn, embedder, fits, loc>> /\ Keep

\* line 373
AReload(t) ==
    /\ pc[t] = "a_reload"
    /\ index' = index \o loc[t].old_embeddings
    /\ loc' = [loc EXCEPT ![t].i = 1]
    /\ Goto(t, "a_update")
    /\ UNCHANGED <<disk, conn, embedder, fits>> /\ Keep

\* lines 376-380, one row
AUpdate(t) ==
    /\ pc[t] = "a_update"
    /\ IF loc[t].i <= Len(loc[t].old_embeddings)
       THEN /\ conn' = UpdateVector(conn, loc[t].i, loc[t].old_embeddings[loc[t].i])
            /\ loc' = [loc EXCEPT ![t].i = @ + 1]
            /\ UNCHANGED pc
       ELSE /\ UNCHANGED <<conn, loc>>
            /\ Goto(t, "a_embed")
    /\ UNCHANGED <<disk, index, embedder, fits>> /\ Keep

\* lines 383-384
AEmbed(t) ==
    /\ pc[t] = "a_embed"
    /\ loc' = [loc EXCEPT ![t].embeddings = embed_batch(embedder, loc[t].texts), ![t].i = 1]
    /\ Goto(t, "a_insert_doc")
    /\ UNCHANGED <<disk, conn, index, embedder, fits>> /\ Keep

\* lines 387-393, one document (or the exception of the fault)
AInsertDoc(t) ==
    /\ pc[t] = "a_insert_doc"
    /\ IF loc[t].i > Min2(Len(loc[t].texts), Len(loc[t].metadatas))
       THEN /\ UNCHANGED <<conn, loc>>
            /\ Goto(t, "a_index_add")
       ELSE IF loc[t].fault.at = "insert" /\ loc[t].fault.j = loc[t].i
       THEN /\ loc' = [loc EXCEPT ![t].exc = "insert"]
            /\ UNCHANGED conn
            /\ Goto(t, "a_rollback")
       ELSE /\ conn' = InsertDocument(conn, loc[t].texts[loc[t].i],
                                      pickle_dumps(loc[t].metadatas[loc[t].i]))
            /\ loc' = [loc EXCEPT ![t].doc_id = NextRowId(conn)]
            /\ Goto(t, "a_insert_vec")
    /\ UNCHANGED <<disk, index, embedder, fits>> /\ Keep

\* lines 396-399
AInsertVec(t) ==
    /\ pc[t] = "a_insert_vec"
    /\ conn' = InsertVector(conn, loc[t].doc_id, loc[t].embeddings[loc[t].i])
    /\ loc' = [loc EXCEPT ![t].i = @ + 1]
    /\ Goto(t, "a_insert_doc")
    /\ UNCHANGED <<disk, index, embedder, fits>> /\ Keep

\* line 402
AIndexAdd(t) ==
    /\ pc[t] = "a_index_add"
    /\ index' = index \o loc[t].embeddings
    /\ Goto(t, "a_commit")
    /\ UNCHANGED <<disk, conn, embedder, fits, loc>> /\ Keep

\* line 404
ACommit(t) ==
    /\ pc[t] = "a_commit"
    /\ disk' = conn
    /\ Goto(t, "done")
    /\ UNCHANGED <<conn, index, embedder, fits, loc>> /\ Keep

\* lines 408-409
ARollback(t) ==
    /\ pc[t] = "a_rollback"
    /\ conn' = disk
    /\ Goto(t, "done")
    /\ UNCHANGED <<disk, index, embedder, fits, loc>> /\ Keep

\* lines 304-305
SCheck(t) ==
    /\ pc[t] = "s_check"
    /\ IF Len(index) = 0
       THEN /\ loc' = [loc EXCEPT ![t].docs = <<Document("Vector store vuoto", EmptyMeta)>>,
                                  ![t].midway = Midway(t)]
            /\ Goto(t, "done")
       ELSE /\ UNCHANGED loc
            /\ Goto(t, "s_embed")
    /\ UNCHANGED <<disk, conn, index, embedder, fits>> /\ Keep

\* lines 308-312
SEmbed(t) ==
    /\ pc[t] = "s_embed"
    /\ loc' = [loc EXCEPT ![t].query_embedding = embed(embedder, loc[t].texts[1])]
    /\ Goto(t, "s_search")
    /\ UNCHANGED <<disk, conn, index, embedder, fits>> /\ Keep

\* lines 315-316.  On an index emptied meanwhile k becomes 0: index.search
\* either raises (caught at line 338) or returns no position.
SSearch(t) ==
    /\ pc[t] = "s_search"
    /\ \/ /\ Len(index) = 0
          /\ loc' = [loc EXCEPT ![t].exc = "search", ![t].midway = Midway(t),
                                ![t].docs = <<Document("Errore nella ricerca", EmptyMeta)>>]
          /\ Goto(t, "done")
       \/ /\ \E indices \in IndexSearch(index, loc[t].query_embedding, Min2(loc[t].k, Len(index))) :
                loc' = [loc EXCEPT ![t].indices = indices, ![t].midway = Midway(t), ![t].i = 1]
          /\ Goto(t, "s_resolve")
    /\ UNCHANGED <<disk, conn, index, embedder, fits>> /\ Keep

\* lines 322-336, one position
SResolve(t) ==
    /\ pc[t] = "s_resolve"
    /\ IF loc[t].i <= Len(loc[t].indices)
       THEN /\ loc' = [loc EXCEPT ![t].docs = @ \o Resolve(conn, <<loc[t].indices[loc[t].i]>>),
                                  ![t].i = @ + 1]
            /\ UNCHANGED pc
       ELSE /\ UNCHANGED loc
            /\ Goto(t, "done")
    /\ UNCHANGED <<disk, conn, index, embedder, fits>> /\ Keep

NextConc ==
    \E t \in Threads :
        \/ CallAdd(t) \/ CallSearch(t)
        \/ ATexts(t) \/ ACheck(t) \/ ASelect(t) \/ AFit(t) \/ ASave(t) \/ ASaveCommit(t)
        \/ AEmbedOld(t) \/ AReset(t) \/ AReload(t) \/ AUpdate(t)
        \/ AEmbed(t) \/ AInsertDoc(t) \/ AInsertVec(t) \/ AIndexAdd(t)
        \/ ACommit(t) \/ ARollback(t)
        \/ SCheck(t) \/ SEmbed(t) \/ SSearch(t) \/ SResolve(t)

SpecConc == InitConc /\ [][NextConc]_vars

\* ------------------------------------------------- the store, array by array
\* The handlers once more, each run to its end, with the arrays they compute,
\* persist and add to the index; the store can be constructed again on the
\* same file with any dimension.

SetArr(s) ==
    /\ dimension' = s.dimension
    /\ tfidf' = s.tfidf
    /\ blobs' = s.blobs
    /\ flat' = s.flat

InitArr ==
    /\ disk = EmptyDB
    /\ conn = EmptyDB
    /\ index = <<>>
    /\ embedder = TfidfEmbedder
    /\ fits = 0
    /\ last = Last("init", "none", FALSE, 0, 1, FALSE)
    /\ ret = <<>>
    /\ pc = [t \in Threads |-> "idle"]
    /\ loc = [t \in Threads |-> Idle]
    /\ NoObjects
    /\ NotPopulating
    /\ \E dim \in Dimensions :
          /\ dimension = open_arrays(EmptyFile, dim, FALSE).s.dimension
          /\ tfidf = open_arrays(EmptyFile, dim, FALSE).s.tfidf
          /\ blobs = open_arrays(EmptyFile, dim, FALSE).s.blobs
          /\ flat = open_arrays(EmptyFile, dim, FALSE).s.flat
          /\ out = Out("init", dim, 0, "none", FALSE)

\* the store is closed and one of dimension dim constructed on the same file
OpenArr ==
    \E dim \in Dimensions, unpickle_raises \in BOOLEAN :
        \E r \in {open_arrays(blobs, dim, unpickle_raises)} :
            /\ SetArr(r.s)
            /\ out' = Out("init", dim, 0, r.exc, r.s.tfidf.is_fitted)
            /\ UNCHANGED <<store_vars, life_vars, pop_vars>>

\* a call of add_texts
AddTextsArr ==
    /\ dimension > 0
    /\ \E n \in 1..(MaxRows - Len(blobs.vectors)),
          shape1 \in IF tfidf.is_fitted THEN {tfidf.vocabulary} ELSE 1..MaxVocab,
          insert_raises \in BOOLEAN :
          \E tf \in {IF tfidf.is_fitted THEN tfidf ELSE fit_arrays(tfidf, shape1)} :
             \E naturals_old \in [1..(IF tfidf.is_fitted THEN 0 ELSE Len(blobs.vectors))
                                     -> Arrays(NaturalDim(tf))],
                naturals \in [1..n -> Arrays(NaturalDim(tf))] :
                \E r \in {add_texts_arrays(Arr, shape1, naturals_old, naturals, insert_raises)} :
                   /\ SetArr(r.s)
                   /\ out' = Out("add_texts", n, 0, r.exc, tfidf.is_fitted)
    /\ UNCHANGED <<store_vars, life_vars, pop_vars>>

\* a call of similarity_search
SimilaritySearchArr ==
    /\ dimension > 0
    /\ \E natural \in IF tfidf.is_fitted THEN Arrays(NaturalDim(tfidf)) ELSE {<<>>},
          random \in IF tfidf.is_fitted THEN {<<>>} ELSE RandomArrays(dimension) :
          \E r \in {similarity_search_arrays(Arr, natural, random)} :
             out' = Out("similarity_search", 0, r, r.embedded.exc, tfidf.is_fitted)
    /\ UNCHANGED <<dimension, tfidf, blobs, flat>>
    /\ UNCHANGED <<store_vars, life_vars, pop_vars>>

\* a call of store.embedder.embed_batch on one text
EmbedBatchArr ==
    /\ dimension > 0
    /\ \E natural \in IF tfidf.is_fitted THEN Arrays(NaturalDim(tfidf)) ELSE {<<>>},
          random \in IF tfidf.is_fitted THEN {<<>>} ELSE RandomArrays(dimension) :
          \E r \in {embed_batch_arrays(tfidf, <<natural>>, <<random>>)} :
             out' = Out("embed_batch", 1, r, r.exc, tfidf.is_fitted)
    /\ UNCHANGED <<dimension, tfidf, blobs, flat>>
    /\ UNCHANGED <<store_vars, life_vars, pop_vars>>

\* a call of store.embedder._ensure_dimension on an array of any length
EnsureDimensionArr ==
    /\ dimension > 0
    /\ \E n \in 0..MaxVocab :
          \E embedding \in Arrays(n) :
             out' = Out("ensure_dimension", embedding,
                        ensure_dimension(embedding, tfidf.dimension), "none", tfidf.is_fitted)
    /\ UNCHANGED <<dimension, tfidf, blobs, flat>>
    /\ UNCHANGED <<store_vars, life_vars, pop_vars>>

NextArr ==
    OpenArr \/ AddTextsArr \/ SimilaritySearchArr \/ EmbedBatchArr \/ EnsureDimensionArr

SpecArr == InitArr /\ [][NextArr]_vars

\* ------------------------------------------------- the life of the objects
\* The store objects a process constructs, uses, closes and lets go; the
\* interpreter finalizes an object no caller refers to.

StoreIdle ==
    /\ disk = EmptyDB
    /\ conn = EmptyDB
    /\ index = <<>>
    /\ embedder = TfidfEmbedder
    /\ fits = 0
    /\ last = Last("init", "none", FALSE, 0, 1, FALSE)
    /\ ret = <<>>
    /\ pc = [t \in Threads |-> "idle"]
    /\ loc = [t \in Threads |-> Idle]

InitLife ==
    /\ StoreIdle
    /\ ArraysClosed
    /\ NoObjects
    /\ NotPopulating

KeepLife == UNCHANGED <<store_vars, array_vars, pop_vars>>

\* CrewAIVectorStore(...), raising at any step or at none
LifeConstruct(o) ==
    /\ objs[o].phase = "new"
    /\ \E raises \in 0..Len(InitSteps) : objs' = [objs EXCEPT ![o] = construct(raises)]
    /\ KeepLife

\* add_texts on a held object; it fails on a closed connection, and may fail
\* on an open one.  Nothing in it assigns or closes self.conn.
LifeAddTexts(o) ==
    /\ objs[o].phase = "ready" /\ objs[o].held
    /\ \E fails \in (IF objs[o].conn = "closed" THEN {TRUE} ELSE BOOLEAN) :
          objs' = [objs EXCEPT ![o].op_failed = @ \/ fails]
    /\ KeepLife

\* similarity_search on a held object, failing or not
LifeSimilaritySearch(o) ==
    /\ objs[o].phase = "ready" /\ objs[o].held
    /\ \E fails \in BOOLEAN : objs' = [objs EXCEPT ![o].op_failed = @ \/ fails]
    /\ KeepLife

\* store.close() by the caller
LifeClose(o) ==
    /\ objs[o].phase = "ready" /\ objs[o].held
    /\ objs[o].closes < MaxCloses
    /\ objs' = [objs EXCEPT ![o] = close(@)]
    /\ KeepLife

\* the caller lets its last reference go
LifeDrop(o) ==
    /\ objs[o].phase = "ready" /\ objs[o].held
    /\ objs' = [objs EXCEPT ![o].held = FALSE]
    /\ KeepLife

\* the interpreter finalizes an object nobody refers to
LifeDel(o) ==
    /\ objs[o].phase \in {"ready", "failed"} /\ ~objs[o].held
    /\ objs' = [objs EXCEPT ![o] = del(@)]
    /\ KeepLife

NextLife ==
    \E o \in Objects :
        \/ LifeConstruct(o) \/ LifeAddTexts(o) \/ LifeSimilaritySearch(o)
        \/ LifeClose(o) \/ LifeDrop(o) \/ LifeDel(o)

\* reference counting finalizes an unreferenced object without delay
SpecLife == InitLife /\ [][NextLife]_vars /\ \A o \in Objects : WF_vars(LifeDel(o))

\* --------------------------------------------- populate_vector_store, steps
KeepPop == UNCHANGED <<store_vars, array_vars, life_vars>>

InitPop ==
    /\ StoreIdle
    /\ ArraysClosed
    /\ NoObjects
    /\ NotPopulating

\* populate_vector_store(store, max_slides), lines 462-464
PopCall ==
    /\ pop.at = "idle"
    /\ \E n \in 0..MaxSlides, raises \in 0..MaxSlides,
          max_slides \in {NoneArg} \cup {Optional(TRUE, m) : m \in 0..MaxSlides} :
          /\ raises <= n
          /\ pop' = Populating(n, max_slides, raises, "for")
    /\ KeepPop

\* store.add_texts(texts, metadatas); texts.clear(); metadatas.clear()
Hand(p) ==
    [p EXCEPT !.handed = Append(@, [texts |-> p.texts, metadatas |-> p.metadatas]),
              !.texts = <<>>, !.metadatas = <<>>]

\* lines 467-483: one turn of the for statement.  enumerate asks all_slides
\* for the next slide (which may raise, or be the end) before the body runs.
PopFor ==
    /\ pop.at = "for"
    /\ pop' = IF pop.raises = pop.i + 1 THEN [pop EXCEPT !.at = "except"]
              ELSE IF pop.i >= pop.n THEN [pop EXCEPT !.at = "flush"]
              ELSE IF Truthy(pop.max_slides) /\ pop.i >= pop.max_slides.value
                   THEN [pop EXCEPT !.at = "flush"]
              ELSE LET slide == pop.i + 1
                       appended == [pop EXCEPT !.texts = Append(@, slide),
                                               !.metadatas = Append(@, slide),
                                               !.slides_added = @ + 1,
                                               !.i = @ + 1]
                   IN IF Len(appended.texts) >= BatchSize THEN Hand(appended)
                      ELSE appended
    /\ KeepPop

\* lines 485-486
PopFlush ==
    /\ pop.at = "flush"
    /\ pop' = [(IF pop.texts # <<>> THEN Hand(pop) ELSE pop) EXCEPT !.at = "return"]
    /\ KeepPop

\* lines 488-489
PopReturn ==
    /\ pop.at = "return"
    /\ pop' = [pop EXCEPT !.returned = pop.slides_added, !.at = "done"]
    /\ KeepPop

\* lines 491-495
PopExcept ==
    /\ pop.at = "except"
    /\ pop' = [pop EXCEPT !.returned = pop.slides_added, !.at = "done"]
    /\ KeepPop

NextPop == PopCall \/ PopFor \/ PopFlush \/ PopReturn \/ PopExcept

SpecPop == InitPop /\ [][NextPop]_vars

\* ------------------------------------------------------------------ claims

\* C1: after every completed operation of the store (construction, add_texts
\* whether it succeeds or fails, similarity_search) the vectors table has as
\* many rows as the index has elements.
C1_RowsEqualIndex == Size(disk.vectors) = Len(index)

\* C2: a batch add is atomic.  When add_texts fails at the j-th document of
\* its batch, no document or vector row of the batch is committed (nor left in
\* the open transaction for a later commit), and get_collection_size() is what
\* it was before the call.
C2_BatchAtomic ==
    [][(last'.op = "add_texts" /\ last'.exc = "insert")
        => /\ disk'.documents = disk.documents
           /\ disk'.vectors = disk.vectors
           /\ disk'.seq = disk.seq
           /\ conn' = disk'
           /\ get_collection_size(St') = get_collection_size(St)]_vars

\* C2's case: a call on a store that holds documents failed at the second
\* document of a batch of two.
C2_Witness ==
    /\ last.op = "add_texts" /\ last.exc = "insert"
    /\ last.j = 2 /\ last.n = 2
    /\ Size(disk.documents) >= 1

\* C3: add_texts mutates the index for a batch only after the batch is
\* committed; a call in which the commit or an earlier write failed leaves the
\* index exactly as it was before the call.
C3_FailedCallKeepsIndex ==
    [][(last'.op = "add_texts" /\ last'.exc # "none") => index' = index]_vars

\* C4: get_collection_size() after a sequence of add_texts batches is the
\* total number of texts passed: every call adds the length of its batch.
C4_SizeCountsTexts ==
    [][last'.op = "add_texts"
        => get_collection_size(St') = get_collection_size(St) + last'.n]_vars

\* C5: the vector at index position i (0-based) is the vector persisted for
\* document id i+1, so a search resolves every position the index returns to
\* the document idx+1 and drops none.
C5_RankIsDocId ==
    /\ \A i \in 1..Len(index) :
          /\ i \in DOMAIN disk.documents
          /\ i \in DOMAIN disk.vectors
          /\ index[i] = disk.vectors[i]
    /\ (last.op = "similarity_search" /\ last.exc = "none" /\ Len(index) > 0)
          => Len(ret) = Min2(last.n, Len(index))

\* C6: add_texts with M texts on a store of N documents whose embedder is not
\* fitted leaves get_collection_size() = N + M, every old document's vector
\* (on disk and at its index position) regenerated with the embedder just
\* fitted, and the old documents' id, content and metadata unchanged.
C6_RefitRegenerates ==
    [][(last'.op = "add_texts" /\ last'.refit /\ Size(disk.documents) >= 1)
        => /\ get_collection_size(St') = Size(disk.documents) + last'.n
           /\ \A id \in DOMAIN disk.documents :
                 /\ id \in DOMAIN disk'.documents
                 /\ disk'.documents[id] = disk.documents[id]
                 /\ id \in DOMAIN disk'.vectors
                 /\ disk'.vectors[id] = embed(embedder', disk.documents[id].content)
                 /\ id <= Len(index')
                 /\ index'[id] = disk'.vectors[id]]_vars

\* C7: a similarity_search that runs while add_texts runs on the same store
\* reads the index either as it was before the mutation or as it is after it:
\* never between index.reset() and the reload, never while it holds the
\* vectors of a batch that is not committed.
C7_SearchSeesWholeIndex ==
    \A t \in Threads : loc[t].op = "similarity_search" => ~loc[t].midway

\* the texts of the rows and of the index entries of a store
Outcome(st) ==
    [documents |-> st.disk.documents,
     vectors |-> [id \in DOMAIN st.disk.vectors |-> st.disk.vectors[id].txt],
     index |-> [i \in 1..Len(st.index) |-> st.index[i].txt]]

\* the call of thread a run to its end, then the call of thread b
Serial(a, b) ==
    add_texts(add_texts(ConcStart, loc[a].texts, loc[a].metadatas, loc[a].fault).st,
              loc[b].texts, loc[b].metadatas, loc[b].fault).st

\* C8: two add_texts calls issued concurrently on one store leave the rows
\* and the index that the two calls leave when run one after the other, in
\* one of the two orders.
C8_AddsSerialized ==
    (\A t \in Threads : pc[t] = "done" /\ loc[t].op = "add_texts")
        => Outcome(St) \in {Outcome(Serial(1, 2)), Outcome(Serial(2, 1))}

\* C9: every storage or embedder failure inside add_texts or
\* similarity_search reaches the caller as an error.
C9_FailuresPropagate ==
    (last.op \in {"add_texts", "similarity_search"} /\ last.exc # "none") => last.raised

\* C10: on a store whose index is empty, similarity_search returns the empty
\* sequence and raises nothing.
C10_EmptyIndexEmptyResult ==
    (last.op = "similarity_search" /\ Len(index) = 0) => (ret = <<>> /\ ~last.raised)

\* C11: an embed or embed_batch invoked while the embedder is not fitted
\* (directly, or from similarity_search on a store that holds vectors and
\* whose embedder state was not loaded) either fails with a not-fitted error
\* or hands back a result that carries a degraded-mode flag.
C11_NotFittedSignalled ==
    /\ (out.op = "embed_batch" /\ ~out.fitted)
          => (out.value.exc = "NotFittedError" \/ "degraded" \in DOMAIN out.value)
    /\ (out.op = "similarity_search" /\ ~out.fitted /\ Len(flat.xs) > 0)
          => (out.value.embedded.exc = "NotFittedError"
              \/ "degraded" \in DOMAIN out.value.embedded)

\* C12: a store constructed on an existing database file has the collection
\* size, and sees the document ids and contents, of what was last committed
\* to the file, whatever calls of add_texts succeeded or failed before.
C12_RestartRoundTrip ==
    [][last'.op = "init"
        => /\ disk' = disk
           /\ conn'.documents = disk.documents
           /\ DOMAIN disk.vectors = DOMAIN disk.documents
           /\ get_collection_size(St') = Size(disk.documents)]_vars

\* C12's case: a store constructed on a file that holds documents and was
\* left by sessions that fitted the embedder more than once (a session failed
\* to persist it, or a later one to load it).
C12_Witness ==
    /\ last.op = "init"
    /\ Size(disk.documents) >= 2
    /\ fits >= 2

\* the lists similarity_search(query, k) can return on store st
Results(st, query, k) ==
    {similarity_search(st, query, indices, NoFault).docs :
        indices \in IndexSearch(st.index, embed(st.embedder, query), Min2(k, Len(st.index)))}

C14_AtMostK ==
    (last.op = "similarity_search" /\ Len(index) > 0 /\ Size(disk.documents) > 0)
        => Len(ret) <= last.n

\* C15: the results of similarity_search are (document, similarity) pairs, in
\* the order of descending similarity, equal similarities by ascending
\* document id.  Stated on what the order is defined on: every result of a
\* search that succeeded on a store with vectors is a pair of a document and
\* its similarity.
C15_ResultsArePairs ==
    (last.op = "similarity_search" /\ last.exc = "none" /\ Len(index) > 0)
        => \A i \in 1..Len(ret) : DOMAIN ret[i] = {"document", "similarity"}

\* the number of float32 components a row of the vectors table holds
Components(blob) == blob.nbytes \div ItemSize

\* C16: _ensure_dimension gives, for an embedding of any length n and the
\* dimension D of the embedder, an array of exactly D components: the first D
\* of the input when n > D, the input followed by D - n zeros when n < D, the
\* input when n = D; and it raises nothing.
C16_EnsureDimension ==
    out.op = "ensure_dimension"
        => LET n == Len(out.arg)
           IN /\ out.exc = "none"
              /\ Len(out.value) = dimension
              /\ n > dimension => out.value = SubSeq(out.arg, 1, dimension)
              /\ n = dimension => out.value = out.arg
              /\ n < dimension
                    => /\ SubSeq(out.value, 1, n) = out.arg
                       /\ \A i \in (n + 1)..dimension : out.value[i] = 0

\* C16's case: an embedding longer than the dimension, whose last component
\* is not zero, was reconciled.
C16_Witness ==
    /\ out.op = "ensure_dimension"
    /\ Len(out.arg) > dimension
    /\ out.arg[Len(out.arg)] # 0

\* C17: every row of the vectors table that a store writes (inserted, or
\* updated on the re-fit path) holds exactly D components, D being the
\* dimension the store was constructed with; also when its embedder state
\* was loaded from a session of another dimension.
C17_RowsHaveDimension ==
    [][\A i \in 1..Len(blobs'.vectors) :
          (i > Len(blobs.vectors) \/ blobs'.vectors[i] # blobs.vectors[i])
             => /\ dimension' = dimension
                /\ Components(blobs'.vectors[i]) = dimension]_vars

\* C17's case: a store whose embedder was loaded from the file, fitted in a
\* session of a larger dimension (its svd gives more components than this
\* store's dimension), added rows.
C17_Witness ==
    /\ out.op = "add_texts" /\ out.exc = "none" /\ out.fitted
    /\ tfidf.vocabulary > dimension /\ tfidf.svd_fitted
    /\ tfidf.n_components > dimension
    /\ Len(blobs.vectors) >= 1

\* C18: the index never holds a vector whose length is not its dimension, and
\* the construction of a store of dimension D on a file whose rows hold
\* vectors of another length fails with an error: no store is there.
C18_MismatchFailsConstruction ==
    [][/\ \A i \in 1..Len(flat'.xs) : Len(flat'.xs[i].x) = flat'.d
       /\ (out'.op = "init" /\ \E i \in 1..Len(blobs.vectors) :
                                  Components(blobs.vectors[i]) # out'.arg)
             => (out'.exc # "none" /\ dimension' = 0)]_vars

\* C18's case: a construction on a file with rows failed at index.add.
C18_Witness ==
    /\ out.op = "init" /\ out.exc = "AssertionError"
    /\ Len(blobs.vectors) >= 1
    /\ dimension = 0

\* C19: every vector in the vectors table or in the index, and every query
\* vector handed to index.search, has norm 1, also when the fitted embedding
\* of its text has all components zero.
C19_UnitNorm ==
    /\ \A i \in 1..Len(blobs.vectors) : IsUnit(frombuffer(blobs.vectors[i]))
    /\ \A i \in 1..Len(flat.xs) : IsUnit(flat.xs[i])
    /\ (out.op = "similarity_search" /\ out.value.searched) => IsUnit(out.value.query)

\* C20: on the re-fit path, from the moment add_texts embeds the new batch
\* on, the regenerated vectors of the documents that existed are in the index
\* and persisted in the database (no other call running on the store).
C20_RegeneratedBeforeBatch ==
    \A t \in Threads :
        (/\ \A u \in Threads \ {t} : pc[u] = "idle"
         /\ loc[t].op = "add_texts" /\ loc[t].old_embeddings # <<>>
         /\ pc[t] \in {"a_embed", "a_insert_doc", "a_insert_vec", "a_index_add",
                       "a_commit", "a_rollback", "done"})
            => \A i \in 1..Len(loc[t].old_embeddings) :
                  /\ i <= Len(index) /\ index[i] = loc[t].old_embeddings[i]
                  /\ i \in DOMAIN disk.vectors
                  /\ disk.vectors[i] = loc[t].old_embeddings[i]

\* C21: an add_texts call that does not fit the embedder only appends: every
\* document row and vector row committed before, every index entry and the
\* persisted embedder state are after the call what they were before it.
C21_NonFitAddAppends ==
    [][(last'.op = "add_texts" /\ ~last'.refit)
        => /\ \A id \in DOMAIN disk.documents :
                 id \in DOMAIN disk'.documents /\ disk'.documents[id] = disk.documents[id]
           /\ \A id \in DOMAIN disk.vectors :
                 id \in DOMAIN disk'.vectors /\ disk'.vectors[id] = disk.vectors[id]
           /\ Len(index') >= Len(index)
           /\ SubSeq(index', 1, Len(index)) = index
           /\ disk'.embedder_state = disk.embedder_state]_vars

\* C21's case: a batch was added, without a fit, to a store that held
\* documents.
C21_Witness ==
    /\ last.op = "add_texts" /\ ~last.refit /\ last.exc = "none"
    /\ last.n >= 1
    /\ Size(disk.documents) > last.n

\* C22: in every committed state of the database the documents and the
\* vectors have the same ids (one vector row per document row and back), and
\* a step commits a document exactly when it commits the vector of its id.
C22_DocumentHasVector ==
    [][/\ DOMAIN disk'.documents = DOMAIN disk'.vectors
       /\ DOMAIN disk'.documents \ DOMAIN disk.documents
             = DOMAIN disk'.vectors \ DOMAIN disk.vectors]_vars

\* C22's case: a batch failed, at a row or at the commit, on a database that
\* holds rows.
C22_Witness ==
    /\ last.op = "add_texts" /\ last.exc \in {"insert", "commit"}
    /\ Size(disk.documents) >= 2
    /\ Size(disk.vectors) >= 2

\* C23: the ids of the committed documents are 1, 2, ..., N in the order of
\* insertion, and the next id the database assigns is N + 1, after any
\* sequence of committed and rolled-back batches.
C23_IdsConsecutive ==
    /\ DOMAIN disk.documents = 1..Size(disk.documents)
    /\ NextRowId(conn) = Size(disk.documents) + 1
    /\ NextRowId(disk) = Size(disk.documents) + 1

\* C23's case: a batch that had inserted a row was rolled back, on a database
\* that holds documents.
C23_Witness ==
    /\ last.op = "add_texts" /\ last.exc = "insert" /\ last.j >= 2
    /\ disk.seq >= 1
    /\ conn.seq = disk.seq

\* C24: a failure in a step of the construction (initializing the database,
\* loading the persisted embedder state, rebuilding the index) reaches the
\* caller of the constructor: no usable store results from it.
C24_ConstructionFailureRaised ==
    (last.op = "init" /\ last.exc # "none") => last.raised

\* C26: an add_texts call appends as many vectors to the index as it inserts
\* document/vector rows, whatever the length of metadatas (the store having
\* one index entry per row before the call).
C26_RowsAddedEqualIndexAdded ==
    [][(last'.op = "add_texts" /\ last'.exc = "none" /\ Len(index) = Size(disk.vectors))
        => /\ Size(disk'.vectors) - Size(disk.vectors) = Len(index') - Len(index)
           /\ Size(disk'.documents) - Size(disk.documents) = Len(index') - Len(index)]_vars

\* C27: after an add_texts call that took the re-fit path and failed, the
\* index is what a rebuild from the database gives (the store having been so,
\* with documents, before the call).
C27_FailedRefitIndexIsRebuild ==
    [][(/\ last'.op = "add_texts" /\ last'.refit /\ last'.exc # "none"
        /\ Size(disk.documents) >= 1
        /\ index = load_vectors(<<>>, disk))
        => index' = load_vectors(<<>>, disk')]_vars

\* C28: when the persisted embedder state is fitted, every persisted vector
\* was produced by the embedder of that state.
C28_VectorsOfPersistedEmbedder ==
    disk.embedder_state.is_fitted
        => \A id \in DOMAIN disk.vectors : disk.vectors[id].gen = disk.embedder_state.gen

\* C30: add_texts called with an empty list is a no-op: the call returns at
\* its first step and that step changes neither the committed database, nor
\* the connection's pending writes (nothing is committed or rolled back), nor
\* the index, nor the embedder (no fit), whether or not the embedder is fitted
\* and whatever another caller has written meanwhile.
C30_EmptyAddIsNoOp ==
    [][\A t \in Threads :
          (/\ loc[t].op = "add_texts" /\ loc[t].texts = <<>>
           /\ pc[t] # "done" /\ pc'[t] # pc[t])
          => /\ pc'[t] = "done"
             /\ UNCHANGED <<disk, conn, index, embedder, fits>>]_vars

\* C30's case: an empty add_texts has returned while the connection holds
\* another caller's uncommitted writes.
C30_Witness ==
    \E t \in Threads :
        /\ loc[t].op = "add_texts" /\ loc[t].texts = <<>> /\ pc[t] = "done"
        /\ conn # disk

RECURSIVE Flat(_, _)
Flat(batches, field) ==
    IF batches = <<>> THEN <<>>
    ELSE batches[1][field] \o Flat(Tail(batches), field)

\* the slides all_slides produced, and those a call has to hand over
Produced(p) == IF p.raises = 0 THEN p.n ELSE p.raises - 1
Expected(p) == IF p.max_slides.given THEN Min2(Produced(p), p.max_slides.value)
               ELSE Produced(p)

\* C29: when populate_vector_store has returned, the batches it handed to
\* add_texts hold the slides all_slides produced, up to max_slides when it is
\* given (0 included), once each and in order, each with its own metadata, in
\* batches of at most 50, and the value returned is their number.
C29_EverySlideHandedOnce ==
    pop.at = "done"
        => /\ Flat(pop.handed, "texts") = [s \in 1..Expected(pop) |-> s]
           /\ Flat(pop.handed, "metadatas") = Flat(pop.handed, "texts")
           /\ \A b \in 1..Len(pop.handed) : Len(pop.handed[b].texts) <= BatchSize
           /\ pop.returned = Len(Flat(pop.handed, "texts"))

====
